---- MODULE Spec2Model ----
(***************************************************************************)
(* Model of backend/server.py: main() (root check, chdir, bind,            *)
(* serve_forever, interrupt, shutdown) and BackendHandler.do_GET (health,  *)
(* sample-graph, static fallback) running on the single-threaded           *)
(* http.server.HTTPServer, with an external actor that edits and deletes   *)
(* data/sample-graph.json and a client that may disconnect.                *)
(*                                                                         *)
(* A request target is a sequence of tokens whose concatenation is the     *)
(* target string: one path token followed by delimiter and letter tokens.  *)
(* A JSON text is a syntax tree; whitespace is not modelled, so equality   *)
(* of trees is equality of JSON values as written.                         *)
(***************************************************************************)
EXTENDS Integers, Sequences, FiniteSets, TLC

VARIABLES pc, root, rootSeen, listener, stdout, stderr, exitCode,
          cur, fs, quiet, staticFiles, last, failedBefore

vars == <<pc, root, rootSeen, listener, stdout, stderr, exitCode,
          cur, fs, quiet, staticFiles, last, failedBefore>>

(* ------------------------------ bounds -------------------------------- *)
\* longest request target, in tokens
MaxTargetLen == 2

(* ------------------------- floating point ----------------------------- *)
\* largest decimal exponent of a finite IEEE double (float() gives inf above)
DBL_MAX_10_EXP == 308
\* decimal digits a double always preserves
DBL_DIG == 15
\* decimal digits float.__repr__ prints at most
DBL_DECIMAL_DIG == 17

(* --------------------------- JSON texts ------------------------------- *)
\* a leaf of a JSON text: number literal, string, or the empty array
Leaf(t, frac, digits, exp10, s) ==
    [t |-> t, frac |-> frac, digits |-> digits, exp10 |-> exp10, s |-> s]
NoLeaf      == Leaf("none", FALSE, 0, 0, "")
Str(s)      == Leaf("str", FALSE, 0, 0, s)
EmptyArr    == Leaf("arr", FALSE, 0, 0, "")
\* 1
IntOne      == Leaf("num", FALSE, 1, 0, "")
\* 1.5
FloatSmall  == Leaf("num", TRUE, 2, 0, "")
\* 1e400
FloatHuge   == Leaf("num", TRUE, 1, 400, "")
\* 0.10000000000000000001 (20 significant digits)
FloatLong   == Leaf("num", TRUE, 20, 0, "")
\* the token Infinity, which json.dumps writes and which is not JSON
InfinityTok == Leaf("Infinity", FALSE, 0, 0, "")

Member(k, v) == [k |-> k, v |-> v]
ScalarDoc(l) == [t |-> "leaf", leaf |-> l, items |-> <<>>]
ObjDoc(ms)   == [t |-> "obj", leaf |-> NoLeaf, items |-> ms]
NoDoc        == [t |-> "none", leaf |-> NoLeaf, items |-> <<>>]

\* {"nodes": [], "edges": []}
EmptyGraph == ObjDoc(<<Member("nodes", EmptyArr), Member("edges", EmptyArr)>>)

\* the valid JSON documents data/sample-graph.json holds in the model
Docs ==
    { EmptyGraph,
      ScalarDoc(IntOne),
      ScalarDoc(FloatSmall),
      ScalarDoc(FloatHuge),
      ObjDoc(<<Member("nodes", FloatLong)>>),
      ObjDoc(<<Member("nodes", IntOne), Member("nodes", EmptyArr)>>) }

\* states of data/sample-graph.json
File(kind, doc) == [kind |-> kind, doc |-> doc]
Absent    == File("absent", NoDoc)
Malformed == File("malformed", NoDoc)
Files     == {Absent, Malformed} \cup {File("valid", d) : d \in Docs}

(* ------------------------ json.load / json.dumps ---------------------- *)
\* Python value of a leaf: int() keeps every digit, float() rounds to a
\* double and overflows to inf
float(l) ==
    IF l.exp10 > DBL_MAX_10_EXP THEN Leaf("inf", TRUE, 0, 0, "")
    ELSE IF l.digits > DBL_DIG THEN Leaf("float", TRUE, DBL_DECIMAL_DIG, l.exp10, "")
    ELSE Leaf("float", TRUE, l.digits, l.exp10, "")

parse_leaf(l) ==
    IF l.t = "num"
    THEN IF l.frac THEN float(l) ELSE Leaf("int", FALSE, l.digits, l.exp10, "")
    ELSE l

\* dict built from the members in order: a repeated key keeps its first
\* position and takes the last value
RECURSIVE pairs_to_dict(_)
pairs_to_dict(ms) ==
    IF ms = <<>> THEN <<>>
    ELSE LET d == pairs_to_dict(SubSeq(ms, 1, Len(ms) - 1))
             m == Member(ms[Len(ms)].k, parse_leaf(ms[Len(ms)].v))
         IN  IF \E i \in DOMAIN d : d[i].k = m.k
             THEN [i \in DOMAIN d |-> IF d[i].k = m.k THEN m ELSE d[i]]
             ELSE Append(d, m)

json_load(doc) ==
    IF doc.t = "obj" THEN ObjDoc(pairs_to_dict(doc.items))
    ELSE ScalarDoc(parse_leaf(doc.leaf))

dump_leaf(v) ==
    CASE v.t = "int"   -> Leaf("num", FALSE, v.digits, v.exp10, "")
      [] v.t = "float" -> Leaf("num", TRUE, v.digits, v.exp10, "")
      [] v.t = "inf"   -> InfinityTok
      [] OTHER         -> v

json_dumps(obj) ==
    IF obj.t = "obj"
    THEN ObjDoc([i \in DOMAIN obj.items |->
                    Member(obj.items[i].k, dump_leaf(obj.items[i].v))])
    ELSE ScalarDoc(dump_leaf(obj.leaf))

(* ----------------------------- responses ------------------------------ *)
Body(kind, doc, bytes) == [kind |-> kind, doc |-> doc, bytes |-> bytes]
NoBody == Body("none", NoDoc, "")

\* what _send_json puts on the wire: the status and the dumped payload
_send_json(status, payload) ==
    [status |-> status, body |-> Body("json", json_dumps(payload), "")]

NoResponse == [status |-> 0, body |-> NoBody]

\* variant: the message key is left out
HealthPayload_mut ==
    ObjDoc(<<Member("status", Str("ok")),
             Member("service", Str("sn-itil-bsm-discovery-backend"))>>)
HealthPayload ==
    ObjDoc(<<Member("status", Str("ok")),
             Member("service", Str("sn-itil-bsm-discovery-backend")),
             Member("message", Str("alive"))>>)

SAMPLE_GRAPH_PATH == "ROOT_DIR/data/sample-graph.json"

MissingPayload ==
    ObjDoc(<<Member("error", Str("sample graph missing")),
             Member("path", Str(SAMPLE_GRAPH_PATH))>>)

\* variant: a missing file answered as an empty document
MissingResponse_mut == _send_json(200, ObjDoc(<<>>))
MissingResponse == _send_json(404, MissingPayload)

(* --------------------------- request targets -------------------------- *)
PathTokens  == {"/api/health", "/api/sample-graph", "/index.html"}
OtherTokens == {"?", "#", ";", "x"}
NoTarget    == <<>>

RECURSIVE Suffixes(_)
Suffixes(n) ==
    IF n = 0 THEN {<<>>}
    ELSE Suffixes(n - 1) \cup
         {Append(s, c) : s \in {u \in Suffixes(n - 1) : Len(u) = n - 1},
                         c \in OtherTokens}

Targets == {<<p>> \o s : p \in PathTokens, s \in Suffixes(MaxTargetLen - 1)}

\* str.split(d, 1)[0]: the part before the first d
CutAt(t, d) ==
    IF \E i \in DOMAIN t : t[i] = d
    THEN SubSeq(t, 1, (CHOOSE i \in DOMAIN t :
                          t[i] = d /\ \A j \in 1..(i - 1) : t[j] # d) - 1)
    ELSE t

\* urlparse(self.path).path: the fragment, then the query, then the
\* parameters of the last segment are split off
\* variant: the raw target is compared, query and all
urlparse_path_mut(t) == t
urlparse_path(t) == CutAt(CutAt(CutAt(t, "#"), "?"), ";")

\* SimpleHTTPRequestHandler.translate_path: only query and fragment go
translate_path(t) == CutAt(CutAt(t, "?"), "#")

Route(t) ==
    IF urlparse_path(t) = <<"/api/health">> THEN "health"
    ELSE IF urlparse_path(t) = <<"/api/sample-graph">> THEN "sample"
    ELSE "static"

\* names a file may have under the static root
StaticNames == {<<"/index.html">>, <<"/index.html", ";">>}
\* contents of the static root
StaticRoots == {{<<"/index.html">>}, StaticNames}
\* bytes of the file of that name
FileBytes(name) == IF Len(name) = 1 THEN "<html>index</html>" ELSE "other"

\* SimpleHTTPRequestHandler.do_GET
static_get(t, files) ==
    IF translate_path(t) \in files
    THEN [status |-> 200, body |-> Body("bytes", NoDoc, FileBytes(translate_path(t)))]
    ELSE [status |-> 404, body |-> Body("errorpage", NoDoc, "File not found")]

(* ------------------------- finished requests -------------------------- *)
\* the record of the request handled last: parsed.path, the route taken,
\* the file name static serving looked up, what SAMPLE_GRAPH_PATH.exists()
\* said, the file as opened, the response written and the exception that
\* left do_GET
Done(path, route, name, exists, opened, snap, resp, raised) ==
    [path |-> path, route |-> route, name |-> name, exists |-> exists,
     opened |-> opened, snap |-> snap, status |-> resp.status,
     body |-> resp.body, raised |-> raised]

NoRequest ==
    Done(NoTarget, "none", NoTarget, "na", FALSE, Absent, NoResponse, "none")

\* wfile.write to a client that has gone raises BrokenPipeError
WriteOutcome(gone) == IF gone THEN "BrokenPipeError" ELSE "none"

Kind(d) ==
    CASE d.raised = "KeyboardInterrupt"      -> "aborted"
      [] d.route = "none"                    -> "none"
      [] d.raised = "BrokenPipeError"        -> "disconnect"
      [] d.raised = "JSONDecodeError"        -> "malformed"
      [] d.raised = "FileNotFoundError"      -> "vanished"
      [] d.route = "sample" /\ d.status = 404 -> "sample404"
      [] d.route = "static" /\ d.status = 404 -> "static404"
      [] OTHER                               -> "ok"

\* a request that ended in one of the per-request failures
Failed(d) == Kind(d) \in {"disconnect", "malformed", "vanished",
                          "sample404", "static404"}

(* ------------------------------- main --------------------------------- *)
RootKinds == {"missing", "file", "dir"}

\* root_dir.exists() and root_dir.is_dir()
\* variant: is_dir() is not asked
RootOk_mut(r) == r # "missing"
RootOk(r) == r = "dir"

RootError == "Error: static root not found"
Banner    == <<"Backend serving on", "Static root:", "API endpoints:",
               "  - GET /api/health", "  - GET /api/sample-graph">>

\* variant: the interrupt is reported as a failure
ExitClean_mut == <<1>>
ExitClean == <<0>>
ExitError == <<1>>

\* socketserver.BaseServer._handle_request_noblock: an Exception raised by
\* the handler is logged, the connection is closed, the loop goes on
\* variant: the exception of a request leaves serve_forever
handle_error_mut(raised) == IF raised = "none" THEN "serving" ELSE "crashed"
handle_error(raised) == "serving"

Init ==
    /\ pc = "start"
    /\ root \in RootKinds
    /\ rootSeen = "unchecked"
    /\ listener = "unbound"
    /\ stdout = <<>>
    /\ stderr = <<>>
    /\ exitCode = <<>>
    /\ cur = NoTarget
    /\ fs \in Files
    /\ quiet = 0
    /\ staticFiles \in StaticRoots
    /\ last = NoRequest
    /\ failedBefore = FALSE

\* another process replaces or removes the static root before the chdir
ExternalRoot ==
    /\ pc \in {"start", "checked"}
    /\ \E r \in RootKinds : r # root /\ root' = r
    /\ UNCHANGED <<pc, rootSeen, listener, stdout, stderr, exitCode,
                   cur, fs, quiet, staticFiles, last, failedBefore>>

\* main, lines 79-83
CheckRoot ==
    /\ pc = "start"
    /\ rootSeen' = root
    /\ IF RootOk(root)
       THEN /\ pc' = "checked"
            /\ UNCHANGED <<stderr, exitCode>>
       ELSE /\ pc' = "exited"
            /\ stderr' = Append(stderr, RootError)
            /\ exitCode' = ExitError
    /\ UNCHANGED <<root, listener, stdout, cur, fs, quiet, staticFiles, last, failedBefore>>

\* main, lines 85-93: os.chdir, HTTPServer(...) binds and listens, banner
Startup ==
    /\ pc = "checked"
    /\ \E bindOk \in BOOLEAN :
         IF root = "dir" /\ bindOk
         THEN /\ pc' = "serving"
              /\ listener' = "bound"
              /\ stdout' = stdout \o Banner
              /\ UNCHANGED <<stderr, exitCode>>
         ELSE /\ pc' = "exited"
              /\ stderr' = Append(stderr, "Traceback: OSError")
              /\ exitCode' = ExitError
              /\ UNCHANGED <<listener, stdout>>
    /\ UNCHANGED <<root, rootSeen, cur, fs, quiet, staticFiles, last, failedBefore>>

\* serve_forever accepts a connection and reads a GET request line
Accept ==
    /\ pc = "serving"
    /\ listener = "bound"
    /\ \E t \in Targets : cur' = t
    /\ pc' = "handling"
    /\ UNCHANGED <<root, rootSeen, listener, stdout, stderr, exitCode,
                   fs, quiet, staticFiles, last, failedBefore>>

\* the request is over: record it and go where handle_error says
Finish(d) ==
    /\ last' = d
    /\ failedBefore' = (failedBefore \/ Failed(last))
    /\ cur' = NoTarget
    /\ LET nxt == handle_error(d.raised)
       IN  IF nxt = "serving"
           THEN /\ pc' = "serving"
                /\ UNCHANGED <<listener, stderr, exitCode>>
           ELSE /\ pc' = "exited"
                /\ listener' = "closed"
                /\ stderr' = Append(stderr, "Traceback: " \o d.raised)
                /\ exitCode' = ExitError
    /\ UNCHANGED <<root, rootSeen, stdout, fs, staticFiles>>

\* do_GET, lines 45-51
DoGetHealth ==
    /\ pc = "handling"
    /\ Route(cur) = "health"
    /\ \E gone \in BOOLEAN :
         Finish(Done(urlparse_path(cur), "health", NoTarget, "na", FALSE, Absent,
                     _send_json(200, HealthPayload), WriteOutcome(gone)))
    /\ UNCHANGED quiet

\* do_GET, lines 53-59: the existence check and the 404 answer
DoGetSampleCheck ==
    /\ pc = "handling"
    /\ Route(cur) = "sample"
    /\ quiet' = IF quiet < 2 THEN quiet + 1 ELSE quiet
    /\ IF fs.kind = "absent"
       THEN \E gone \in BOOLEAN :
              Finish(Done(urlparse_path(cur), "sample", NoTarget, "no", FALSE,
                          Absent, MissingResponse, WriteOutcome(gone)))
       ELSE /\ pc' = "opening"
            /\ UNCHANGED <<root, rootSeen, listener, stdout, stderr, exitCode,
                           cur, fs, staticFiles, last, failedBefore>>

\* lines 61-63 on the file as it is now: open raises when the file is
\* gone, json.load raises on malformed text, else the payload is sent
\* variant: a document cached at startup is served
open_and_load_mut(f) ==
    [resp |-> _send_json(200, json_load(EmptyGraph)), raised |-> "none"]
open_and_load(f) ==
    CASE f.kind = "absent"    -> [resp |-> NoResponse, raised |-> "FileNotFoundError"]
      [] f.kind = "malformed" -> [resp |-> NoResponse, raised |-> "JSONDecodeError"]
      [] OTHER -> [resp |-> _send_json(200, json_load(f.doc)), raised |-> "none"]

\* do_GET, lines 61-64
DoGetSampleLoad ==
    /\ pc = "opening"
    /\ LET r == open_and_load(fs)
       IN  \E gone \in BOOLEAN :
             Finish(Done(urlparse_path(cur), "sample", NoTarget, "yes", TRUE,
                         fs, r.resp,
                         IF r.raised = "none" THEN WriteOutcome(gone)
                         ELSE r.raised))
    /\ UNCHANGED quiet

\* do_GET, line 67
DoGetStatic ==
    /\ pc = "handling"
    /\ Route(cur) = "static"
    /\ \E gone \in BOOLEAN :
         Finish(Done(urlparse_path(cur), "static", translate_path(cur), "na",
                     FALSE, Absent, static_get(cur, staticFiles),
                     WriteOutcome(gone)))
    /\ UNCHANGED quiet

\* another process creates or rewrites data/sample-graph.json
ExternalWrite ==
    /\ pc \in {"serving", "handling", "opening"}
    /\ \E f \in Files \ {Absent} : f # fs /\ fs' = f
    /\ quiet' = 0
    /\ UNCHANGED <<pc, root, rootSeen, listener, stdout, stderr, exitCode,
                   cur, staticFiles, last, failedBefore>>

\* another process deletes data/sample-graph.json
ExternalDelete ==
    /\ pc \in {"serving", "handling", "opening"}
    /\ fs # Absent
    /\ fs' = Absent
    /\ quiet' = 0
    /\ UNCHANGED <<pc, root, rootSeen, listener, stdout, stderr, exitCode,
                   cur, staticFiles, last, failedBefore>>

\* SIGINT: KeyboardInterrupt is raised in the one thread, inside
\* serve_forever; a handler that is running is left by the exception and
\* its connection is shut down
Interrupt ==
    /\ pc \in {"serving", "handling", "opening"}
    /\ pc' = "interrupted"
    /\ IF cur = NoTarget
       THEN UNCHANGED <<last, failedBefore>>
       ELSE /\ last' = Done(NoTarget, "none", NoTarget,
                            IF pc = "opening" THEN "yes" ELSE "na",
                            FALSE, Absent, NoResponse, "KeyboardInterrupt")
            /\ failedBefore' = (failedBefore \/ Failed(last))
    /\ cur' = NoTarget
    /\ UNCHANGED <<root, rootSeen, listener, stdout, stderr, exitCode,
                   fs, quiet, staticFiles>>

\* main, lines 96-101
Shutdown ==
    /\ pc = "interrupted"
    /\ stdout' = Append(stdout, "Shutting down")
    /\ listener' = "closed"
    /\ exitCode' = ExitClean
    /\ pc' = "exited"
    /\ UNCHANGED <<root, rootSeen, stderr, cur, fs, quiet, staticFiles, last, failedBefore>>

Next ==
    \/ ExternalRoot
    \/ CheckRoot
    \/ Startup
    \/ Accept
    \/ DoGetHealth
    \/ DoGetSampleCheck
    \/ DoGetSampleLoad
    \/ DoGetStatic
    \/ ExternalWrite
    \/ ExternalDelete
    \/ Interrupt
    \/ Shutdown

Spec == Init /\ [][Next]_vars

(* ------------------------- helpers of the claims ---------------------- *)
\* the part of a target before the first token of ds
Before(t, ds) ==
    IF \E i \in DOMAIN t : t[i] \in ds
    THEN SubSeq(t, 1, (CHOOSE i \in DOMAIN t :
                          t[i] \in ds /\ \A j \in 1..(i - 1) : t[j] \notin ds) - 1)
    ELSE t

\* the path component of a request target: what precedes "?" and "#"
PathComponent(t) == Before(t, {"?", "#"})

\* a step in which do_GET ends (by return or by an exception of the request)
Ends == pc \in {"handling", "opening"} /\ cur' = NoTarget /\ pc' # "interrupted"

HealthBody ==
    Body("json",
         ObjDoc(<<Member("status", Str("ok")),
                  Member("service", Str("sn-itil-bsm-discovery-backend")),
                  Member("message", Str("alive"))>>),
         "")

Keys(doc) == {doc.items[i].k : i \in DOMAIN doc.items}

(* ------------------------------- claims ------------------------------- *)
\* C1: every GET whose path component is /api/health that do_GET answers
\* gets status 200 and the fixed body, whatever came before and whatever
\* the state of data/sample-graph.json.
C1_HealthAlways ==
    [][(Ends /\ PathComponent(cur) = <<"/api/health">>)
         => (last'.status = 200 /\ last'.body = HealthBody)]_vars

C1_Witness ==
    /\ last.route = "health"
    /\ last.path = <<"/api/health">>
    /\ last.status = 200
    /\ failedBefore
    /\ fs = Malformed

\* C2: a GET /api/sample-graph that read a valid JSON value v from the file
\* answers 200 with exactly v.
C2_Unmodified ==
    (last.opened /\ last.snap.kind = "valid")
        => (last.status = 200 /\ last.body = Body("json", last.snap.doc, ""))

\* C3: a GET /api/sample-graph handled while the file does not exist is
\* answered 404 with a JSON object holding the keys error and path (the
\* path of the missing file), and the file is neither opened nor created.
C3_Missing404 ==
    [][(Ends /\ pc = "handling" /\ fs = Absent
             /\ PathComponent(cur) = <<"/api/sample-graph">>)
        => /\ last'.status = 404
           /\ last'.body.kind = "json"
           /\ {"error", "path"} \subseteq Keys(last'.body.doc)
           /\ \E i \in DOMAIN last'.body.doc.items :
                 last'.body.doc.items[i] = Member("path", Str(SAMPLE_GRAPH_PATH))
           /\ ~last'.opened
           /\ fs' = Absent]_vars

C3_Witness ==
    /\ last.route = "sample"
    /\ last.exists = "no"
    /\ last.status = 404
    /\ fs = Absent

\* C4: a GET /api/sample-graph that read a file that is not valid JSON is
\* answered with status 500.
C4_Malformed500 ==
    (last.opened /\ last.snap.kind = "malformed") => last.status = 500

\* C5: no cache. The answer of GET /api/sample-graph is computed from the
\* file as it is when the handler reads it: 404 when it is absent at the
\* check, the serialisation of the loaded content when it is opened; and
\* two sample-graph requests with no change of the file between them get
\* the same status and body.
C5_NoCache ==
    [][/\ (Ends /\ pc = "handling" /\ Route(cur) = "sample")
            => (fs = Absent /\ last'.status = 404)
       /\ (Ends /\ pc = "opening")
            => /\ last'.snap = fs
               /\ fs.kind = "valid" =>
                    /\ last'.status = 200
                    /\ last'.body = Body("json", json_dumps(json_load(fs.doc)), "")
               /\ fs.kind # "valid" => last'.status = 0
       /\ (Ends /\ Route(cur) = "sample"
                /\ quiet >= (IF pc = "handling" THEN 1 ELSE 2)
                /\ last.route = "sample" /\ last.raised # "KeyboardInterrupt")
            => (last'.status = last.status /\ last'.body = last.body)]_vars

C5_Witness ==
    /\ last.route = "sample"
    /\ last.status = 200
    /\ last.snap = File("valid", ScalarDoc(IntOne))
    /\ failedBefore
    /\ quiet = 2

\* C6: when the root check finds the static root missing or not a
\* directory, main prints the error to standard error, returns 1 and binds
\* no socket; a listener exists only in runs whose check found a directory.
C6_RootRefused ==
    /\ rootSeen \in {"missing", "file"}
         => /\ pc = "exited"
            /\ exitCode = <<1>>
            /\ stderr = <<"Error: static root not found">>
            /\ listener = "unbound"
            /\ stdout = <<>>
    /\ listener # "unbound" => rootSeen = "dir"

C6_Witness ==
    /\ rootSeen = "file"
    /\ pc = "exited"
    /\ exitCode = <<1>>

\* C7 as stated: when the process has exited after an interrupt, every
\* request that was in flight has been answered in full.
C7_InFlightCompleted ==
    (pc = "exited" /\ exitCode = <<0>>) => last.raised # "KeyboardInterrupt"

\* C7 amended: after an interrupt no request is accepted or handled any
\* more (one in flight is abandoned), and the next step prints the final
\* message, closes the listener and exits with code 0.
C7_Shutdown ==
    /\ [](pc = "interrupted"
            => (cur = NoTarget /\ listener = "bound" /\ exitCode = <<>>))
    /\ [](exitCode = <<0>>
            => /\ pc = "exited"
               /\ listener = "closed"
               /\ stdout # <<>>
               /\ stdout[Len(stdout)] = "Shutting down")
    /\ [][pc = "interrupted"
            => /\ pc' = "exited"
               /\ exitCode' = <<0>>
               /\ listener' = "closed"
               /\ stdout' = Append(stdout, "Shutting down")
               /\ last' = last]_vars
    /\ [][pc = "exited" => pc' = "exited"]_vars

C7_Witness ==
    /\ pc = "exited"
    /\ exitCode = <<0>>
    /\ last.raised = "KeyboardInterrupt"

\* the status each route answers with, from the request and the files alone
C8_StatusRule(t, f, files) ==
    CASE Before(t, {"?", "#", ";"}) = <<"/api/health">> -> 200
      [] Before(t, {"?", "#", ";"}) = <<"/api/sample-graph">> ->
            (IF f.kind = "absent" THEN 404
             ELSE IF f.kind = "valid" THEN 200 ELSE 0)
      [] OTHER -> IF PathComponent(t) \in files THEN 200 ELSE 404

\* C8: no per-request failure ends the server. While serving, the listener
\* is bound and the process has not exited; only an interrupt leaves the
\* serve loop; and a request is answered by the same rule whether or not
\* earlier requests failed.
C8_Available ==
    /\ [](pc \in {"serving", "handling", "opening"}
            => (listener = "bound" /\ exitCode = <<>>))
    /\ [][(pc \in {"serving", "handling", "opening"}
            /\ pc' \notin {"serving", "handling", "opening"})
            => pc' = "interrupted"]_vars
    /\ [][Ends => /\ pc' = "serving"
                  /\ (pc = "handling" \/ fs # Absent)
                       => last'.status = C8_StatusRule(cur, fs, staticFiles)]_vars

C8_Witness ==
    /\ failedBefore
    /\ pc = "serving"
    /\ listener = "bound"
    /\ last.status = 200
    /\ last.raised = "none"

C10_MissingIs404 ==
    /\ last.raised # "FileNotFoundError"
    /\ (last.route = "sample" /\ last.opened /\ last.snap = Absent)
          => last.status = 404

TypeOK ==
    /\ pc \in {"start", "checked", "serving", "handling", "opening",
               "interrupted", "exited"}
    /\ root \in RootKinds
    /\ listener \in {"unbound", "bound", "closed"}
    /\ cur \in Targets \cup {NoTarget}
    /\ fs \in Files
    /\ staticFiles \in StaticRoots
====
